---- MODULE Spec2Model ----
(***************************************************************************)
(* Model of internal/buf/bufcli/errors.go: the internal-error wrapper,     *)
(* the domain error constructors, wrapError and the error interceptor.     *)
(*                                                                         *)
(* Error values live in a heap (a sequence of objects); an error is the    *)
(* index of its object, so reference equality is equality of indices and   *)
(* the nil error is Nil.  A text is a sequence of pieces: a piece is a     *)
(* character that %q treats specially (double quote, backslash) or a run   *)
(* of ordinary characters; a literal fragment of a format string is kept   *)
(* as one piece.                                                           *)
(***************************************************************************)
EXTENDS Integers, Sequences, FiniteSets, TLC

VARIABLES heap, accessor, last, pc, frame

vars == <<heap, accessor, last, pc, frame>>

\* Largest number of error values a run allocates.
MaxHeap == 3

Nil == 0

DQ == "\""
BS == "\\"

----------------------------------------------------------------------------
\* Texts

Contains(s, t) ==
    \E i \in 0..(Len(s) - Len(t)) : SubSeq(s, i + 1, i + Len(t)) = t

RECURSIVE Escape(_)
Escape(s) ==
    IF s = <<>> THEN <<>>
    ELSE (IF Head(s) \in {DQ, BS} THEN <<BS, Head(s)>> ELSE <<Head(s)>>)
         \o Escape(Tail(s))

\* The %q verb: the operand in double quotes, with Go escaping.
Quoted(s) == <<DQ>> \o Escape(s) \o <<DQ>>

\* The %s verb (and %d on a rendered number): the operand as it is.
Verbatim(s) == s

----------------------------------------------------------------------------
\* rpc error codes and the accessor (package rpc, outside this file)

ErrorCodeUnknown == "Unknown"
ErrorCodeUnauthenticated == "Unauthenticated"
ErrorCodeUnavailable == "Unavailable"
ErrorCodeNotFound == "NotFound"

ErrorCodes ==
    {ErrorCodeUnknown, ErrorCodeUnauthenticated, ErrorCodeUnavailable,
     ErrorCodeNotFound}

\* The two ways the accessor can look for an rpc error: a type assertion on
\* the error itself, or a walk of its unwrap chain.
Accessors == {"type", "chain"}

----------------------------------------------------------------------------
\* Error objects

Obj(kind, msg, code, cause) ==
    [kind |-> kind, msg |-> msg, code |-> code, cause |-> cause]

\* errors.New / fmt.Errorf without %w
ErrorString(msg) == Obj("errorString", msg, ErrorCodeUnknown, Nil)

\* an error made by the rpc package
RpcError(code, msg) == Obj("rpcError", msg, code, Nil)

\* fmt.Errorf with one %w operand
FmtWrapError(msg, err) == Obj("wrapError", msg, ErrorCodeUnknown, err)

\* &errInternal{cause: err}
errInternal(cause) == Obj("errInternal", <<>>, ErrorCodeUnknown, cause)

Alloc(h, obj) == [ret |-> Len(h) + 1, heap |-> Append(h, obj)]

Refs(h) == 1..Len(h)

----------------------------------------------------------------------------
\* Domain errors

ErrNoModuleName ==
    ErrorString(<<"please specify a module name in your configuration file with the ",
                  DQ, "name", DQ, " key">>)

ErrNoConfigFile ==
    ErrorString(<<"please define a configuration file in the current directory; you can create one by running ",
                  DQ, "buf beta mod init", DQ>>)

NewModuleRefError(moduleRef) ==
    ErrorString(<<"could not parse ">> \o Quoted(moduleRef)
                \o <<" as a module; please verify this is a valid reference">>)

NewTooManyEmptyAnswersError(attempts) ==
    ErrorString(<<"did not receive an answer in ">> \o Verbatim(attempts)
                \o <<" attempts">>)

NewFlagIsRequiredError(flagName) ==
    ErrorString(<<"--">> \o Verbatim(flagName) \o <<" is required.">>)

NewOrganizationNameAlreadyExistsError(name) ==
    ErrorString(<<"an organization named ">> \o Quoted(name)
                \o <<" already exists">>)

NewRepositoryNameAlreadyExistsError(name) ==
    ErrorString(<<"a repository named ">> \o Quoted(name)
                \o <<" already exists">>)

NewBranchNameAlreadyExistsError(name) ==
    ErrorString(<<"a branch named ">> \o Quoted(name) \o <<" already exists">>)

NewOrganizationNotFoundError(name) ==
    ErrorString(<<"an organization named ">> \o Quoted(name)
                \o <<" does not exist, use ", DQ,
                     "buf beta registry organization create", DQ,
                     " to create one">>)

NewRepositoryNotFoundError(name) ==
    ErrorString(<<"a repository named ">> \o Quoted(name)
                \o <<" does not exist, use ", DQ,
                     "buf beta registry repository create", DQ,
                     " to create one">>)

NewTokenNotFoundError(tokenID) ==
    ErrorString(<<"a token with ID ">> \o Quoted(tokenID)
                \o <<" does not exist">>)

----------------------------------------------------------------------------
\* Inputs

Names == {<<"acme">>}

Messages == {<<>>, <<"boom">>}

Actions == {<<"lint">>, <<"say ", DQ, "hi", DQ>>}

\* The (context, container) pairs the interceptor is invoked with.
Invocations == {<<"ctx1", "box1">>}

\* Every error the constructors of this file make.
DomainErrors ==
    {ErrNoModuleName, ErrNoConfigFile}
    \cup {NewTooManyEmptyAnswersError(<<"3">>)}
    \cup UNION {{NewModuleRefError(n), NewFlagIsRequiredError(n),
                 NewOrganizationNameAlreadyExistsError(n),
                 NewRepositoryNameAlreadyExistsError(n),
                 NewBranchNameAlreadyExistsError(n),
                 NewOrganizationNotFoundError(n),
                 NewRepositoryNotFoundError(n),
                 NewTokenNotFoundError(n)} : n \in Names}

\* The domain errors the runs start from.
DomainCauses ==
    {ErrNoModuleName} \cup {NewTokenNotFoundError(n) : n \in Names}

\* The errors a command can fail with before this file touches them.
RootCauses ==
    DomainCauses
    \cup {ErrorString(m) : m \in Messages}
    \cup {RpcError(c, m) : c \in ErrorCodes, m \in Messages}

----------------------------------------------------------------------------
\* errInternal and its predicate

\* errors.Unwrap: only fmt's wrapError has an Unwrap method.
Unwrap(err, h) ==
    IF err # Nil /\ h[err].kind = "wrapError" THEN h[err].cause ELSE Nil

\* (*errInternal).Is: a type assertion on the target.
errInternal_Is(e, target, h) ==
    target # Nil /\ h[target].kind = "errInternal"

\* only errInternal has an Is method
HasIs(err, h) == err # Nil /\ h[err].kind = "errInternal"

RECURSIVE IsLoop(_, _, _)
IsLoop(err, target, h) ==
    IF err = target THEN TRUE
    ELSE IF HasIs(err, h) /\ errInternal_Is(err, target, h) THEN TRUE
    ELSE IF Unwrap(err, h) = Nil THEN FALSE
    ELSE IsLoop(Unwrap(err, h), target, h)

\* errors.Is
ErrorsIs(err, target, h) ==
    IF target = Nil THEN err = target ELSE IsLoop(err, target, h)

isInternalError_typeOnly(err, h) ==
    err # Nil /\ h[err].kind = "errInternal"

\* errors.Is(err, &errInternal{}): the target is a fresh errInternal.
isInternalError(err, h) ==
    LET probe == Alloc(h, errInternal(Nil))
    IN ErrorsIs(err, probe.ret, probe.heap)

NewInternalError_always(err, h) == Alloc(h, errInternal(err))

NewInternalError(err, h) ==
    IF isInternalError(err, h)
    THEN [ret |-> err, heap |-> h]
    ELSE Alloc(h, errInternal(err))

InternalPreamble ==
    <<"it looks like you have found a bug in buf. Please file an issue at https://github.com/bufbuild/buf/issues/ and provide the command you ran">>

\* The Error method of every kind of error.
RECURSIVE Error(_, _)
Error(err, h) ==
    IF h[err].kind = "errInternal"
    THEN IF h[err].cause = Nil
         THEN InternalPreamble
         ELSE InternalPreamble \o <<", as well as the following message: ">>
              \o Error(h[err].cause, h)
    ELSE h[err].msg

----------------------------------------------------------------------------
\* rpc.GetErrorCode

RECURSIVE FirstRpc(_, _)
FirstRpc(err, h) ==
    IF err = Nil THEN Nil
    ELSE IF h[err].kind = "rpcError" THEN err
    ELSE FirstRpc(Unwrap(err, h), h)

GetErrorCode(err, h) ==
    LET found == IF accessor = "chain" THEN FirstRpc(err, h)
                 ELSE IF err # Nil /\ h[err].kind = "rpcError" THEN err
                 ELSE Nil
    IN IF found = Nil THEN ErrorCodeUnknown ELSE h[found].code

----------------------------------------------------------------------------
\* wrapError

\* line 136: the error is nil, or empty and not an rpc error
ReturnedAsIs(err, h) ==
    err = Nil
    \/ (Error(err, h) = <<>> /\ GetErrorCode(err, h) = ErrorCodeUnknown)

AuthText(action) ==
    <<"Failed to ">> \o Verbatim(action)
    \o <<"; you are not ", "authenticated",
         ". Create a new entry in your netrc, using a Buf API Key as the password. For details, visit https://beta.docs.buf.build/authentication">>

UnavailableText(action, msg) ==
    <<"Failed to ">> \o Verbatim(action)
    \o <<": the server hosted at that remote is ", "unavailable", ": ">>
    \o msg \o <<".">>

GenericText(action, msg) ==
    <<"Failed to ">> \o Quoted(action) \o <<": ">> \o msg \o <<".">>

wrapError_nilOnly(action, err, h) ==
    IF err = Nil THEN [ret |-> err, heap |-> h]
    ELSE IF GetErrorCode(err, h) = ErrorCodeUnauthenticated
    THEN Alloc(h, ErrorString(AuthText(action)))
    ELSE IF GetErrorCode(err, h) = ErrorCodeUnavailable
    THEN Alloc(h, FmtWrapError(UnavailableText(action, Error(err, h)), err))
    ELSE Alloc(h, FmtWrapError(GenericText(action, Error(err, h)), err))

wrapError_authShowsCause(action, err, h) ==
    IF ReturnedAsIs(err, h) THEN [ret |-> err, heap |-> h]
    ELSE IF GetErrorCode(err, h) = ErrorCodeUnauthenticated
    THEN Alloc(h, FmtWrapError(AuthText(action) \o <<": ">> \o Error(err, h), err))
    ELSE IF GetErrorCode(err, h) = ErrorCodeUnavailable
    THEN Alloc(h, FmtWrapError(UnavailableText(action, Error(err, h)), err))
    ELSE Alloc(h, FmtWrapError(GenericText(action, Error(err, h)), err))

wrapError_unavailableAsGeneric(action, err, h) ==
    IF ReturnedAsIs(err, h) THEN [ret |-> err, heap |-> h]
    ELSE IF GetErrorCode(err, h) = ErrorCodeUnauthenticated
    THEN Alloc(h, ErrorString(AuthText(action)))
    ELSE Alloc(h, FmtWrapError(GenericText(action, Error(err, h)), err))

wrapError_unquotedAction(action, err, h) ==
    IF ReturnedAsIs(err, h) THEN [ret |-> err, heap |-> h]
    ELSE IF GetErrorCode(err, h) = ErrorCodeUnauthenticated
    THEN Alloc(h, ErrorString(AuthText(action)))
    ELSE IF GetErrorCode(err, h) = ErrorCodeUnavailable
    THEN Alloc(h, FmtWrapError(UnavailableText(action, Error(err, h)), err))
    ELSE Alloc(h, FmtWrapError(<<"Failed to ">> \o Verbatim(action) \o <<": ">>
                                \o Error(err, h) \o <<".">>, err))

wrapError(action, err, h) ==
    IF ReturnedAsIs(err, h) THEN [ret |-> err, heap |-> h]
    ELSE IF GetErrorCode(err, h) = ErrorCodeUnauthenticated
    THEN Alloc(h, ErrorString(AuthText(action)))
    ELSE IF GetErrorCode(err, h) = ErrorCodeUnavailable
    THEN Alloc(h, FmtWrapError(UnavailableText(action, Error(err, h)), err))
    ELSE Alloc(h, FmtWrapError(GenericText(action, Error(err, h)), err))

----------------------------------------------------------------------------
\* State machine

Call(op, arg, ret) == [op |-> op, arg |-> arg, ret |-> ret]

IdleFrame ==
    [action |-> <<>>, ctx |-> "none", container |-> "none", calls |-> 0,
     nextCtx |-> "none", nextContainer |-> "none", err |-> Nil, ret |-> Nil]

Init ==
    /\ heap \in {<<>>} \cup {<<r>> : r \in RootCauses}
    /\ accessor \in Accessors
    /\ last = Call("none", Nil, Nil)
    /\ pc = "idle"
    /\ frame = IdleFrame

\* some caller runs NewInternalError(e)
CallNewInternalError ==
    /\ pc = "idle"
    /\ \E e \in Refs(heap) \cup {Nil} :
          LET r == NewInternalError(e, heap)
          IN /\ Len(r.heap) <= MaxHeap
             /\ heap' = r.heap
             /\ last' = Call("NewInternalError", e, r.ret)
    /\ UNCHANGED <<accessor, pc, frame>>

\* an unrelated layer upstream wraps e: fmt.Errorf("context: %w", e)
CallFmtWrap ==
    /\ pc = "idle"
    /\ Len(heap) < MaxHeap
    /\ \E e \in Refs(heap) :
          LET r == Alloc(heap, FmtWrapError(<<"context: ">> \o Error(e, heap), e))
          IN /\ heap' = r.heap
             /\ last' = Call("fmtWrap", e, r.ret)
    /\ UNCHANGED <<accessor, pc, frame>>

\* the function returned by NewErrorInterceptor(action)(next) is invoked
InterceptorInvoke ==
    /\ pc = "idle"
    /\ \E action \in Actions, inv \in Invocations :
          frame' = [IdleFrame EXCEPT !.action = action, !.ctx = inv[1],
                                     !.container = inv[2]]
    /\ pc' = "called"
    /\ UNCHANGED <<heap, accessor, last>>

\* next(ctx, container) runs and returns its error
InterceptorRunNext ==
    /\ pc = "called"
    /\ \E err \in Refs(heap) \cup {Nil} :
          frame' = [frame EXCEPT !.calls = @ + 1, !.nextCtx = frame.ctx,
                                 !.nextContainer = frame.container,
                                 !.err = err]
    /\ pc' = "ran"
    /\ UNCHANGED <<heap, accessor, last>>

InterceptorReturn_retryOnError ==
    /\ pc = "ran"
    /\ IF frame.err # Nil /\ frame.calls < 2
       THEN /\ pc' = "called"
            /\ UNCHANGED <<heap, accessor, last, frame>>
       ELSE LET r == wrapError(frame.action, frame.err, heap)
            IN /\ Len(r.heap) <= MaxHeap
               /\ heap' = r.heap
               /\ frame' = [frame EXCEPT !.ret = r.ret]
               /\ pc' = "returned"
               /\ UNCHANGED <<accessor, last>>

\* return wrapError(action, <the error next returned>)
InterceptorReturn ==
    /\ pc = "ran"
    /\ LET r == wrapError(frame.action, frame.err, heap)
       IN /\ Len(r.heap) <= MaxHeap
          /\ heap' = r.heap
          /\ frame' = [frame EXCEPT !.ret = r.ret]
    /\ pc' = "returned"
    /\ UNCHANGED <<accessor, last>>

\* the caller has taken the result; the interceptor can be invoked again
InterceptorDone ==
    /\ pc = "returned"
    /\ pc' = "idle"
    /\ frame' = IdleFrame
    /\ UNCHANGED <<heap, accessor, last>>

Next ==
    \/ CallNewInternalError
    \/ CallFmtWrap
    \/ InterceptorInvoke
    \/ InterceptorRunNext
    \/ InterceptorReturn
    \/ InterceptorDone

Spec == Init /\ [][Next]_vars

TypeOK ==
    /\ Len(heap) <= MaxHeap
    /\ accessor \in Accessors
    /\ pc \in {"idle", "called", "ran", "returned"}

----------------------------------------------------------------------------
\* Helpers of the properties

\* Number of wrapping layers the properties put around an internal error.
MaxLayers == 2

MaybeErr == Refs(heap) \cup {Nil}

\* the reference an object holds: the wrapped error or the cause field
Held(e, h) == h[e].cause

RECURSIVE InternalCount(_, _)
InternalCount(e, h) ==
    IF e = Nil THEN 0
    ELSE (IF h[e].kind = "errInternal" THEN 1 ELSE 0)
         + InternalCount(Held(e, h), h)

RECURSIVE UnwrapChain(_, _)
UnwrapChain(e, h) ==
    IF e = Nil THEN {} ELSE {e} \cup UnwrapChain(Unwrap(e, h), h)

IsInternalValue(e, h) == h[e].kind = "errInternal"

\* n unrelated wrapping layers around the error e of the heap h
RECURSIVE Layered(_, _, _)
Layered(e, h, n) ==
    IF n = 0 THEN [ret |-> e, heap |-> h]
    ELSE Layered(Len(h) + 1,
                 Append(h, FmtWrapError(<<"context: ">> \o Error(e, h), e)),
                 n - 1)

Message(r) == Error(r.ret, r.heap)

NeedsEscape(s) == \E i \in 1..Len(s) : s[i] \in {DQ, BS}

----------------------------------------------------------------------------
\* Properties

\* C1: NewInternalError is idempotent: for every error e1, nil included,
\* NewInternalError(NewInternalError(e1)) is the very error
\* NewInternalError(e1) returned, and the second call allocates no error.
C1_Idempotent ==
    \A e1 \in MaybeErr :
        LET r1 == NewInternalError(e1, heap)
            r2 == NewInternalError(r1.ret, r1.heap)
        IN r2.ret = r1.ret /\ r2.heap = r1.heap

\* NewInternalError was called on an error that is already internal and
\* returned it.
C1_Witness ==
    /\ last.op = "NewInternalError"
    /\ last.arg # Nil
    /\ heap[last.arg].kind = "errInternal"
    /\ last.ret = last.arg

\* C2: isInternalError is false for nil and for every error with no internal
\* error in its unwrap chain, true for every error with one, true for
\* NewInternalError(e) and true for NewInternalError(e) under any number of
\* unrelated wrapping layers.
C2_ChainAware ==
    /\ ~isInternalError(Nil, heap)
    /\ \A e \in Refs(heap) :
          isInternalError(e, heap)
            <=> (\E x \in UnwrapChain(e, heap) : IsInternalValue(x, heap))
    /\ \A e \in MaybeErr, n \in 0..MaxLayers :
          LET i == NewInternalError(e, heap)
              r == Layered(i.ret, i.heap, n)
          IN isInternalError(r.ret, r.heap)

\* An unrelated layer wraps an internal error, and the layer is classified
\* as internal although it is no errInternal itself.
C2_Witness ==
    /\ last.op = "fmtWrap"
    /\ heap[last.arg].kind = "errInternal"
    /\ heap[last.ret].kind = "wrapError"
    /\ isInternalError(last.ret, heap)

\* C3: wrapError returns err itself when err is nil or has the empty message
\* and the code Unknown; otherwise, an empty message with another code
\* included, it returns a new error that is neither nil nor err.
C3_PassThrough ==
    \A action \in Actions, err \in MaybeErr :
        LET r == wrapError(action, err, heap)
        IN IF err = Nil
              \/ (Error(err, heap) = <<>>
                  /\ GetErrorCode(err, heap) = ErrorCodeUnknown)
           THEN r.ret = err /\ r.heap = heap
           ELSE /\ r.ret # Nil
                /\ r.ret # err
                /\ r.ret \notin Refs(heap)
                /\ r.ret \in Refs(r.heap)

\* The interceptor got an error with the empty message and a code other than
\* Unknown, and returned another error.
C3_Witness ==
    /\ pc = "returned"
    /\ frame.err # Nil
    /\ Error(frame.err, heap) = <<>>
    /\ GetErrorCode(frame.err, heap) # ErrorCodeUnknown
    /\ frame.ret # frame.err
    /\ frame.ret # Nil

\* C4 as stated: for every error e with the code Unauthenticated and every
\* action, the message of wrapError(action, e) contains "authenticated" and
\* the action and does not contain e's text.
C4_Stated ==
    \A action \in Actions, e \in Refs(heap) :
        GetErrorCode(e, heap) = ErrorCodeUnauthenticated =>
            LET m == Message(wrapError(action, e, heap))
            IN /\ Contains(m, <<"authenticated">>)
               /\ Contains(m, action)
               /\ ~Contains(m, Error(e, heap))

\* C4: for every error e with the code Unauthenticated and every action, the
\* message of wrapError(action, e) contains "authenticated" and the action,
\* is the same for every such e, and does not contain e's text unless that
\* text is empty or already occurs in the fixed message for the action.
C4_Amended ==
    \A action \in Actions, e \in Refs(heap) :
        GetErrorCode(e, heap) = ErrorCodeUnauthenticated =>
            LET m == Message(wrapError(action, e, heap))
            IN /\ Contains(m, <<"authenticated">>)
               /\ Contains(m, action)
               /\ \A e2 \in Refs(heap) :
                     GetErrorCode(e2, heap) = ErrorCodeUnauthenticated =>
                         Message(wrapError(action, e2, heap)) = m
               /\ \/ Error(e, heap) = <<>>
                  \/ Contains(AuthText(action), Error(e, heap))
                  \/ ~Contains(m, Error(e, heap))

\* The interceptor got an Unauthenticated error with a text and returned a
\* message without that text.
C4_Witness ==
    /\ pc = "returned"
    /\ frame.err # Nil
    /\ GetErrorCode(frame.err, heap) = ErrorCodeUnauthenticated
    /\ Error(frame.err, heap) # <<>>
    /\ frame.ret # frame.err
    /\ Contains(Error(frame.ret, heap), <<"authenticated">>)
    /\ ~Contains(Error(frame.ret, heap), Error(frame.err, heap))

\* C5: for every error e with the code Unavailable and every action, the
\* message of wrapError(action, e) contains "unavailable", the action and e's
\* message verbatim.
C5_Unavailable ==
    \A action \in Actions, e \in Refs(heap) :
        GetErrorCode(e, heap) = ErrorCodeUnavailable =>
            LET m == Message(wrapError(action, e, heap))
            IN /\ Contains(m, <<"unavailable">>)
               /\ Contains(m, action)
               /\ Contains(m, Error(e, heap))

\* The interceptor got an Unavailable error with a text, for an action with a
\* double quote in it.
C5_Witness ==
    /\ pc = "returned"
    /\ frame.err # Nil
    /\ GetErrorCode(frame.err, heap) = ErrorCodeUnavailable
    /\ Error(frame.err, heap) # <<>>
    /\ NeedsEscape(frame.action)
    /\ frame.ret # frame.err

\* the errors wrapError's last branch takes
Generic(e, h) ==
    /\ e # Nil
    /\ ~(Error(e, h) = <<>> /\ GetErrorCode(e, h) = ErrorCodeUnknown)
    /\ GetErrorCode(e, h) \notin {ErrorCodeUnauthenticated, ErrorCodeUnavailable}

\* C6 as stated: for every such error e the message of wrapError(action, e)
\* is exactly Failed to "<action>": <e's message>. and unwrapping the result
\* once yields e.
C6_Stated ==
    \A action \in Actions, e \in Refs(heap) :
        Generic(e, heap) =>
            LET r == wrapError(action, e, heap)
            IN /\ Message(r) = <<"Failed to ", DQ>> \o action \o <<DQ, ": ">>
                               \o Error(e, heap) \o <<".">>
               /\ Unwrap(r.ret, r.heap) = e

\* C6: for every such error e, and every domain error of the constructors,
\* the message of wrapError(action, e) is Failed to <action as %q writes it:
\* in double quotes, each double quote and backslash in it escaped by a
\* backslash>: <e's message>. and unwrapping the result once yields e; the
\* message is exactly Failed to "<action>": <e's message>. when the action
\* needs no escaping.
C6_Amended ==
    /\ \A action \in Actions, e \in Refs(heap) :
          Generic(e, heap) =>
              LET r == wrapError(action, e, heap)
              IN /\ Message(r) = <<"Failed to ", DQ>> \o Escape(action)
                                 \o <<DQ, ": ">> \o Error(e, heap) \o <<".">>
                 /\ ~NeedsEscape(action) =>
                        Message(r) = <<"Failed to ", DQ>> \o action
                                     \o <<DQ, ": ">> \o Error(e, heap) \o <<".">>
                 /\ Unwrap(r.ret, r.heap) = e
    /\ \A d \in DomainErrors : Generic(1, <<d>>)
    \* the constructors' errors, each alone in a heap: the heap of the state
    \* plays no part, so the empty one stands for all
    /\ heap = <<>> =>
          \A action \in Actions, d \in DomainErrors :
              LET r == wrapError(action, 1, <<d>>)
              IN /\ Message(r) = <<"Failed to ", DQ>> \o Escape(action)
                                 \o <<DQ, ": ">> \o d.msg \o <<".">>
                 /\ Unwrap(r.ret, r.heap) = 1

\* The interceptor got an Unknown-coded error with a text, for an action
\* without a double quote, and returned an error that unwraps to it.
C6_Witness ==
    /\ pc = "returned"
    /\ frame.err # Nil
    /\ Generic(frame.err, heap)
    /\ GetErrorCode(frame.err, heap) = ErrorCodeUnknown
    /\ ~NeedsEscape(frame.action)
    /\ Unwrap(frame.ret, heap) = frame.err

\* C7: for every error err that wrapError does not return as it is, and
\* every action, errors.Is(wrapError(action, err), err) holds.
C7_Recoverable ==
    \A action \in Actions, err \in Refs(heap) :
        LET r == wrapError(action, err, heap)
        IN r.ret # err => ErrorsIs(r.ret, err, r.heap)

\* C8: for every non-nil error e that is not internal,
\* errors.Is(NewInternalError(e), e) holds: e is reachable from the internal
\* error by unwrapping.
C8_CauseReachable ==
    \A e \in Refs(heap) :
        ~isInternalError(e, heap) =>
            LET r == NewInternalError(e, heap)
            IN ErrorsIs(r.ret, e, r.heap)

\* C9: every error has at most one errInternal among itself, its unwrap
\* chain and the cause fields of the internal errors in it, and the cause of
\* every errInternal is an error that is not classified as internal.
C9_NeverNested ==
    /\ \A e \in Refs(heap) : InternalCount(e, heap) <= 1
    /\ \A e \in Refs(heap) :
          heap[e].kind = "errInternal" => ~isInternalError(heap[e].cause, heap)
    /\ \A e \in MaybeErr :
          NewInternalError(e, heap).heap # heap => ~isInternalError(e, heap)

\* NewInternalError was called on a wrapping layer around an internal error
\* and returned the layer.
C9_Witness ==
    /\ last.op = "NewInternalError"
    /\ last.arg # Nil
    /\ heap[last.arg].kind = "wrapError"
    /\ InternalCount(last.arg, heap) = 1
    /\ last.ret = last.arg

\* C10: when the function returned by NewErrorInterceptor(action)(next)
\* returns, next has run exactly once, with the context and the container of
\* the invocation, and the result is wrapError(action, err) for the err that
\* run returned.
C10_RunsNextOnce ==
    pc = "returned" =>
        /\ frame.calls = 1
        /\ frame.nextCtx = frame.ctx
        /\ frame.nextContainer = frame.container
        /\ \E h0 \in {heap, SubSeq(heap, 1, Len(heap) - 1)} :
              /\ frame.err <= Len(h0)
              /\ wrapError(frame.action, frame.err, h0)
                   = [ret |-> frame.ret, heap |-> heap]

\* The interceptor returned after a run of next that failed.
C10_Witness ==
    /\ pc = "returned"
    /\ frame.err # Nil
    /\ frame.calls = 1
    /\ frame.ret # Nil

====
